---- MODULE Spec2Model ----
(***************************************************************************)
(* A model of seq_wise/utils/dataset.py of KitsuneX07/ObjectTracking:      *)
(*   - read_raw_data: the byte-level frame locator and the frame decoder,  *)
(*     one step per loop iteration, on a byte stream with a cursor;        *)
(*   - RDSeq._process_batch: the per-batch frame loop around it, the       *)
(*     velocity axis and the map building;                                 *)
(*   - RDSeq.__getitem__: padding / resampling to seq_len.                 *)
(* Bytes are 0..255, a 32-bit word is its four little-endian bytes (the    *)
(* sentinels do not fit a signed 32-bit integer, so words are compared as  *)
(* byte tuples and turned into numbers only once known to be small).       *)
(***************************************************************************)
EXTENDS Integers, Sequences, FiniteSets, TLC

VARIABLES
  stream,            \* the raw file, as runs of bytes (fixed during a run)
  sent,              \* what was laid out in the stream: <<[off, layout, p, bad]>>
  pos,               \* fid.tell()
  pc,                \* where the batch loop / read_raw_data stands
  head_find,         \* read_raw_data local: the header candidate word
  end_find,          \* read_raw_data local: the trailer candidate word
  frame_data_length, \* read_raw_data local: declared byte length
  head_pos,          \* offset head_find was read from
  call_start,        \* cursor at the start of the current read_raw_data call
  loc,               \* outcome of the locator part of the current call
  trail_fail,        \* header offset whose first trailer check failed, or -1
  result,            \* what the last read_raw_data call returned
  frames_out,        \* frames returned so far: <<[h, params]>>
  rd_matrices,       \* _process_batch: header offsets of the frames that built a map
  frame_count,       \* _process_batch: frame_count
  seq_len,           \* RDSeq.seq_len
  images,            \* __getitem__: the maps (ids 1..n; 0 is an all-zero map)
  image_mask,        \* __getitem__: image_mask
  n_maps,            \* number of maps _process_batch yielded
  gpc,               \* __getitem__ position
  prt_num,           \* map building: params.prt_num
  prt,               \* map building: params.prt, in units of 0.0125 us
  freq,              \* map building: params.freq, in MHz
  track_no_info,     \* map building: params.track_no_info
  mags,              \* map building: |mtd_result| per Doppler column (rows alike)
  v_indices,         \* map building: v_indices (v_axis = v_indices * delta_v)
  rd_matrix,         \* map building: the emitted map's columns
  velocity_index,    \* map building: velocity_index (from 0)
  mpc                \* map building position

parserVars == <<stream, sent, pos, pc, head_find, end_find, frame_data_length,
                head_pos, call_start, loc, trail_fail, result, frames_out,
                rd_matrices, frame_count>>
seqVars == <<seq_len, images, image_mask, n_maps, gpc>>
mapVars == <<prt_num, prt, freq, track_no_info, mags, v_indices, rd_matrix,
             velocity_index, mpc>>
vars == <<parserVars, seqVars, mapVars>>

(***************************************************************************)
(* Bounds of the model.                                                    *)
(***************************************************************************)
MaxChunks == 3
MaxFrames == 2
MaxTail == 2

(***************************************************************************)
(* Words.                                                                  *)
(***************************************************************************)
FRAME_HEAD == <<85, 250, 85, 250>>
FRAME_END == <<250, 85, 250, 85>>

ToWord(v) == <<v % 256, (v \div 256) % 256, (v \div 65536) % 256, v \div 16777216>>

\* the value of a word whose top bit is clear
U32(w) == w[1] + 256 * w[2] + 65536 * w[3] + 16777216 * w[4]

\* w > k as unsigned 32-bit numbers, for 0 <= k < 2^31
WordGt(w, k) ==
  LET hi == 256 * w[4] + w[3]
      lo == 256 * w[2] + w[1]
  IN  hi > k \div 65536 \/ (hi = k \div 65536 /\ lo > k % 65536)

WordIsZero(w) == w = <<0, 0, 0, 0>>

RECURSIVE Flatten(_)
Flatten(ss) == IF ss = <<>> THEN <<>> ELSE Head(ss) \o Flatten(Tail(ss))

(***************************************************************************)
(* The stream: fid.read, fid.seek, fid.tell, os.fstat(...).st_size.        *)
(***************************************************************************)
\* The file is a sequence of runs [rep, n]: the bytes of rep, repeated, n bytes in
\* all. Literal bytes are the run [rep |-> bytes, n |-> Len(bytes)].
Bytes(b) == [rep |-> b, n |-> Len(b)]

Run(b, k) == [rep |-> b, n |-> k]

RECURSIVE SizeOf(_)
SizeOf(runs) == IF runs = <<>> THEN 0 ELSE Head(runs).n + SizeOf(Tail(runs))

RECURSIVE ByteIn(_, _)
ByteIn(runs, o) ==
  IF o < Head(runs).n
  THEN Head(runs).rep[(o % Len(Head(runs).rep)) + 1]
  ELSE ByteIn(Tail(runs), o - Head(runs).n)

file_size == SizeOf(stream)

\* the four bytes at offsets o .. o+3
Word(o) == <<ByteIn(stream, o), ByteIn(stream, o + 1), ByteIn(stream, o + 2), ByteIn(stream, o + 3)>>

\* fid.read(k) at cursor p returns k bytes
CanRead(p, k) == p >= 0 /\ p + k <= file_size

\* the cursor after fid.read(k) at cursor p (a read stops at the end of the file)
AfterRead(p, k) == IF p >= file_size THEN p ELSE IF p + k <= file_size THEN p + k ELSE file_size

(***************************************************************************)
(* read_raw_data, the locator part (lines 80-163).                         *)
(***************************************************************************)
SeekBackStall == 3 + 1
SeekBackSkip == 3 - 1
SeekBack == 3

LengthScale == 4

MaxFrameBytes == 1000000

TrailerBackMutant == 12 - 4
TrailerBack == 12

VerifyShift == 1

VerifySkip == 8

DataBack == 4

\* not (frame_data_length <= 0 or frame_data_length > 1000000)
LengthInRange(w) == ~WordIsZero(w) /\ ~WordGt(w, MaxFrameBytes \div LengthScale)

\* struct.unpack('<I', length_bytes)[0] * 4, for a word in range
DeclaredLength(w) == U32(w) * LengthScale

NoneResult == [ok |-> FALSE]

IdleLoc == [st |-> "idle", h |-> -1, L |-> 0, via |-> "-"]
RunningLoc == [st |-> "running", h |-> -1, L |-> 0, via |-> "-"]
NoneLoc == [st |-> "none", h |-> -1, L |-> 0, via |-> "-"]

\* `return None, None` out of the locator; _process_batch then breaks (line 360)
LocatorNone(p) ==
  /\ pos' = p
  /\ pc' = "done"
  /\ loc' = NoneLoc
  /\ result' = NoneResult
  /\ UNCHANGED <<head_find, end_find, frame_data_length, head_pos>>

\* lines 84-90: the first header candidate of a call
ReadHead ==
  /\ pc = "call"
  /\ call_start' = pos
  /\ trail_fail' = -1
  /\ IF CanRead(pos, 4)
     THEN /\ head_find' = Word(pos)
          /\ head_pos' = pos
          /\ pos' = pos + 4
          /\ pc' = "search"
          /\ loc' = RunningLoc
          /\ UNCHANGED <<end_find, frame_data_length, result>>
     ELSE LocatorNone(AfterRead(pos, 4))
  /\ UNCHANGED <<stream, sent, frames_out, rd_matrices, frame_count>>
  /\ UNCHANGED <<seqVars, mapVars>>

\* lines 94-102: one iteration of the header search
SearchStep ==
  /\ pc = "search"
  /\ head_find # FRAME_HEAD /\ pos < file_size
  /\ LET p == pos - SeekBack IN
       IF CanRead(p, 4)
       THEN /\ head_find' = Word(p)
            /\ head_pos' = p
            /\ pos' = p + 4
            /\ UNCHANGED <<pc, loc, end_find, frame_data_length, result>>
       ELSE LocatorNone(AfterRead(p, 4))
  /\ UNCHANGED <<stream, sent, call_start, trail_fail, frames_out, rd_matrices, frame_count>>
  /\ UNCHANGED <<seqVars, mapVars>>

\* lines 104-117: the search is over; the declared length
ReadLength ==
  /\ pc = "search"
  /\ ~(head_find # FRAME_HEAD /\ pos < file_size)
  /\ IF head_find # FRAME_HEAD
     THEN LocatorNone(pos)
     ELSE IF ~CanRead(pos, 4)
     THEN LocatorNone(AfterRead(pos, 4))
     ELSE IF ~LengthInRange(Word(pos))
     THEN LocatorNone(pos + 4)
     ELSE /\ frame_data_length' = DeclaredLength(Word(pos))
          /\ pos' = pos + 4
          /\ pc' = "trailer"
          /\ UNCHANGED <<head_find, end_find, head_pos, loc, result>>
  /\ UNCHANGED <<stream, sent, call_start, trail_fail, frames_out, rd_matrices, frame_count>>
  /\ UNCHANGED <<seqVars, mapVars>>

\* lines 119-129: the first trailer check
ReadTrailer ==
  /\ pc = "trailer"
  /\ LET current_pos == pos
         p == current_pos + frame_data_length - TrailerBack
     IN  IF CanRead(p, 4)
         THEN /\ end_find' = Word(p)
              /\ pos' = p + 4
              /\ pc' = "verify"
              /\ trail_fail' = IF Word(p) # FRAME_END THEN head_pos ELSE -1
              /\ UNCHANGED <<head_find, frame_data_length, head_pos, loc, result>>
         ELSE /\ LocatorNone(AfterRead(p, 4))
              /\ UNCHANGED trail_fail
  /\ UNCHANGED <<stream, sent, call_start, frames_out, rd_matrices, frame_count>>
  /\ UNCHANGED <<seqVars, mapVars>>

\* lines 132-160: one iteration of the header/trailer verification loop
VerifyStep ==
  /\ pc = "verify"
  /\ head_find # FRAME_HEAD \/ end_find # FRAME_END
  /\ LET p1 == pos - frame_data_length + VerifyShift
         p2 == p1 + 8 + DeclaredLength(Word(p1 + 4)) - VerifySkip
     IN  IF ~CanRead(p1, 4)
         THEN LocatorNone(AfterRead(p1, 4))
         ELSE IF ~CanRead(p1 + 4, 4)
         THEN LocatorNone(AfterRead(p1 + 4, 4))
         ELSE IF ~LengthInRange(Word(p1 + 4))
         THEN LocatorNone(p1 + 8)
         ELSE IF ~CanRead(p2, 4)
         THEN LocatorNone(AfterRead(p2, 4))
         ELSE IF p2 + 4 >= file_size /\ (Word(p1) # FRAME_HEAD \/ Word(p2) # FRAME_END)
         THEN LocatorNone(p2 + 4)
         ELSE /\ head_find' = Word(p1)
              /\ head_pos' = p1
              /\ frame_data_length' = DeclaredLength(Word(p1 + 4))
              /\ end_find' = Word(p2)
              /\ pos' = p2 + 4
              /\ UNCHANGED <<pc, loc, result>>
  /\ UNCHANGED <<stream, sent, call_start, trail_fail, frames_out, rd_matrices, frame_count>>
  /\ UNCHANGED <<seqVars, mapVars>>

\* line 163: header and trailer agree; back to the start of the data
Accept ==
  /\ pc = "verify"
  /\ head_find = FRAME_HEAD /\ end_find = FRAME_END
  /\ pos' = pos - frame_data_length + DataBack
  /\ pc' = "decode"
  /\ loc' = [st |-> "found", h |-> head_pos, L |-> frame_data_length,
             via |-> IF trail_fail = -1 THEN "first" ELSE "resync"]
  /\ UNCHANGED <<stream, sent, head_find, end_find, frame_data_length, head_pos,
                 call_start, trail_fail, result, frames_out, rd_matrices, frame_count>>
  /\ UNCHANGED <<seqVars, mapVars>>

(***************************************************************************)
(* read_raw_data, the decoder part (lines 165-240). Scaled fields are kept *)
(* as their raw words: e_scan_az in 0.01 degree, freq in MHz, prt in       *)
(* 12.5 ns.                                                                *)
(***************************************************************************)
MaxPointNum == 1000

MaxPrtNum == 10000

\* params.prt > 1 with prt = raw * 0.0125e-6: raw > 80,000,000
MaxPrtRaw == 80000000

\* params.freq > 1e12 with freq = raw * 1e6: raw > 1,000,000
MaxFreqRaw == 1000000

RangeBins == 31

\* bytes of IQ data: prt_num * 31 * 2 float32
IqBytes(pn) == pn * RangeBins * 2 * 4

\* p is the cursor line 163 leaves: the three leading words data_temp1 start at p
DecodeAt(p) ==
  IF ~CanRead(p, 12)
  THEN [res |-> NoneResult, pos |-> AfterRead(p, 12)]
  ELSE
    LET e_scan_az == Word(p + 4)
        point_num_in_bowei == Word(p + 8)
        q == p + 12
    IN
    IF WordGt(point_num_in_bowei, MaxPointNum)
    THEN [res |-> NoneResult, pos |-> q]
    ELSE
      LET pn == U32(point_num_in_bowei)
          param_count == pn * 4 + 5
          base == q + pn * 4 * 4
          d == q + param_count * 4
          w_freq == Word(base)
          w_cpi == Word(base + 4)
          w_prt_num == Word(base + 8)
          w_prt == Word(base + 12)
          w_len == Word(base + 16)
      IN
      IF ~CanRead(q, param_count * 4)
      THEN [res |-> NoneResult, pos |-> AfterRead(q, param_count * 4)]
      ELSE IF WordIsZero(w_prt_num) \/ WordGt(w_prt_num, MaxPrtNum)
      THEN [res |-> NoneResult, pos |-> d]
      ELSE IF WordIsZero(w_prt) \/ WordGt(w_prt, MaxPrtRaw)
      THEN [res |-> NoneResult, pos |-> d]
      ELSE IF WordIsZero(w_freq) \/ WordGt(w_freq, MaxFreqRaw)
      THEN [res |-> NoneResult, pos |-> d]
      ELSE IF ~CanRead(d, IqBytes(U32(w_prt_num)))
      THEN [res |-> NoneResult, pos |-> AfterRead(d, IqBytes(U32(w_prt_num)))]
      ELSE [res |-> [ok |-> TRUE,
                     e_scan_az |-> e_scan_az,
                     track_no_info |-> [i \in 1..(pn * 4) |-> Word(q + 4 * (i - 1))],
                     freq |-> w_freq,
                     cpi_count |-> w_cpi,
                     prt_num |-> w_prt_num,
                     prt |-> w_prt,
                     data_length |-> w_len,
                     shape |-> <<RangeBins, U32(w_prt_num)>>],
            pos |-> d + IqBytes(U32(w_prt_num)) + 4]

\* lines 165-240, and the `break` of line 360 when None comes back
Decode ==
  /\ pc = "decode"
  /\ \E r \in {DecodeAt(pos)} :
       /\ result' = r.res
       /\ pos' = r.pos
       /\ IF r.res.ok
          THEN /\ pc' = "frame"
               /\ frames_out' = Append(frames_out, [h |-> loc.h, params |-> r.res])
          ELSE /\ pc' = "done"
               /\ UNCHANGED frames_out
  /\ UNCHANGED <<stream, sent, head_find, end_find, frame_data_length, head_pos,
                 call_start, loc, trail_fail, rd_matrices, frame_count>>
  /\ UNCHANGED <<seqVars, mapVars>>

(***************************************************************************)
(* RDSeq._process_batch: the velocity axis (lines 393-420).                *)
(***************************************************************************)
\* delta_v = C / (2 * prt_num * prt * freq) = 1.2e10 / (prt_num * prt_raw * freq_raw);
\* delta_v > 10000 iff prt_num * prt_raw * freq_raw < 1,200,000
DeltaVScale == 1200000

DeltaVTooBig(pn, pr, fr) ==
  IF pr >= (DeltaVScale + pn - 1) \div pn
  THEN FALSE
  ELSE fr < (DeltaVScale + pn * pr - 1) \div (pn * pr)

HalfPrt(pn) == pn \div 2

MaxHalfPrt == 10000

\* np.arange(-int(half_prt), int(half_prt), dtype=np.int32)
VIndices(pn) == [i \in 1..(2 * HalfPrt(pn)) |-> i - 1 - HalfPrt(pn)]

\* the frame passes lines 406 and 417
AxisAccepted(pn) ==
  /\ ~(HalfPrt(pn) <= 0 \/ HalfPrt(pn) > MaxHalfPrt)
  /\ ~(Len(VIndices(pn)) # pn)

\* lines 365-420 and 426-479: the frame reaches the map building of line 481
ReachesMapBuilding(params) ==
  /\ Len(params.track_no_info) # 0
  /\ ~(Len(params.track_no_info) < 4)
  /\ ~DeltaVTooBig(U32(params.prt_num), U32(params.prt), U32(params.freq))
  /\ AxisAccepted(U32(params.prt_num))

\* lines 362-497: the loop body for a frame read_raw_data returned
ProcessFrame ==
  /\ pc = "frame"
  /\ frame_count' = frame_count + 1
  /\ rd_matrices' = IF ReachesMapBuilding(result)
                    THEN Append(rd_matrices, loc.h)
                    ELSE rd_matrices
  /\ pc' = "call"
  /\ UNCHANGED <<stream, sent, pos, head_find, end_find, frame_data_length, head_pos,
                 call_start, loc, trail_fail, result, frames_out>>
  /\ UNCHANGED <<seqVars, mapVars>>

(***************************************************************************)
(* RDSeq._process_batch: one returned frame, from the checks of line 364   *)
(* to the map of line 490.  mags holds |mtd_result| of one range bin; the  *)
(* RangeBins rows of the matrix are taken alike.                           *)
(***************************************************************************)
Abs(x) == IF x < 0 THEN -x ELSE x
Min(a, b) == IF a < b THEN a ELSE b
Max(a, b) == IF a > b THEN a ELSE b

\* lines 364-374
CheckTracks ==
  /\ mpc = "frame"
  /\ mpc' = IF Len(track_no_info) = 0 \/ Len(track_no_info) < 4
                 \/ prt <= 0 \/ prt_num <= 0 \/ freq <= 0
            THEN "skip_tracks"
            ELSE "mtd"
  /\ UNCHANGED <<prt_num, prt, freq, track_no_info, mags, v_indices, rd_matrix,
                 velocity_index>>
  /\ UNCHANGED <<parserVars, seqVars>>

\* lines 393-420
VelocityAxis ==
  /\ mpc = "mtd"
  /\ IF DeltaVTooBig(prt_num, prt, freq)
     THEN mpc' = "skip_delta_v" /\ UNCHANGED v_indices
     ELSE IF HalfPrt(prt_num) <= 0 \/ HalfPrt(prt_num) > MaxHalfPrt
     THEN mpc' = "skip_half_prt" /\ UNCHANGED v_indices
     ELSE /\ v_indices' = VIndices(prt_num)
          /\ mpc' = IF Len(VIndices(prt_num)) # prt_num THEN "skip_axis" ELSE "locate"
  /\ UNCHANGED <<prt_num, prt, freq, track_no_info, mags, rd_matrix, velocity_index>>
  /\ UNCHANGED <<parserVars, seqVars>>

center_local_bin == 15
local_radius == 5
RangePlotLen == 31

\* lines 427-439
AmpMaxVrUnit ==
  LET unit == track_no_info[4]
      half_prt == HalfPrt(prt_num)
      shifted == IF unit > half_prt THEN unit - half_prt ELSE unit + half_prt
  IN  Max(0, Min(shifted - 1, prt_num - 1))

\* np.argmax over columns lo..hi-1 (from 0): the first column of the largest value
ArgMax(m, lo, hi) ==
  CHOOSE c \in lo..(hi - 1) :
    /\ \A d \in lo..(hi - 1) : m[d + 1] <= m[c + 1]
    /\ \A d \in lo..(c - 1) : m[d + 1] < m[c + 1]

\* lines 427-479
Localise ==
  /\ mpc = "locate"
  /\ LET range_start_local == Max(0, center_local_bin - local_radius)
         range_end_local == Min(RangeBins, center_local_bin + local_radius + 1)
         doppler_start == Max(0, AmpMaxVrUnit - local_radius)
         doppler_end == Min(Len(mags), AmpMaxVrUnit + local_radius + 1)
     IN  IF range_end_local <= range_start_local \/ doppler_end <= doppler_start
         THEN mpc' = "skip_target"
         ELSE LET amp_max_index_row == 0
                  amp_max_index_col == ArgMax(mags, doppler_start, doppler_end) - doppler_start
                  detected_range_bin == range_start_local + amp_max_index_row
                  doppler_idx == doppler_start + amp_max_index_col
              IN  mpc' = IF detected_range_bin >= RangePlotLen \/ doppler_idx >= Len(v_indices)
                         THEN "skip_target"
                         ELSE "build"
  /\ UNCHANGED <<prt_num, prt, freq, track_no_info, mags, v_indices, rd_matrix,
                 velocity_index>>
  /\ UNCHANGED <<parserVars, seqVars>>

VelocityLimit == 56
FreqUnit == 10000

\* np.abs(velocity_axis) < 56 where velocity_axis = idx * delta_v and
\* delta_v = DeltaVScale * FreqUnit / (prt_num * prt * freq); freq is a multiple of FreqUnit
VelocityMask(idx) ==
  Abs(idx) * DeltaVScale < VelocityLimit * prt_num * prt * (freq \div FreqUnit)

\* a Python slice bound on an axis of n entries
SliceBound(i, n) == IF i < 0 THEN Max(i + n, 0) ELSE Min(i, n)

BandBefore == 4
BandAfter == 3
Percent == 5

CountBelow(row, v) == Cardinality({c \in 1..Len(row) : row[c] < v})
CountAtMost(row, v) == Cardinality({c \in 1..Len(row) : row[c] <= v})

\* entry j (from 0) of the sorted, flattened matrix
Sorted(row, j) ==
  CHOOSE v \in {row[c] : c \in 1..Len(row)} :
    RangeBins * CountBelow(row, v) <= j /\ j < RangeBins * CountAtMost(row, v)

\* x < np.percentile(rd_matrix, 5): linear interpolation at index (N - 1) * 5 / 100
BelowPercentile(row, x) ==
  LET N == RangeBins * Len(row)
      k == ((N - 1) * Percent) \div 100
      r == ((N - 1) * Percent) % 100
      lo == Sorted(row, k)
      hi == Sorted(row, Min(k + 1, N - 1))
  IN  100 * x < 100 * lo + r * (hi - lo)

\* lines 481-490
BuildMap ==
  /\ mpc = "build"
  /\ LET columns == [i \in 1..Len(v_indices) |-> i]
         kept == SelectSeq(columns, LAMBDA i : VelocityMask(v_indices[i]))
         masked == [c \in 1..Len(kept) |-> mags[kept[c]]]
         zeros == {i \in 1..Len(v_indices) : v_indices[i] = 0}
     IN  IF zeros = {}
         THEN mpc' = "skip_target" /\ UNCHANGED <<rd_matrix, velocity_index>>
         ELSE LET index == (CHOOSE i \in zeros : \A j \in zeros : i <= j) - 1
                  a == SliceBound(index - BandBefore, Len(masked))
                  b == SliceBound(index + BandAfter, Len(masked))
                  banded == [c \in 1..Len(masked) |->
                               IF a <= c - 1 /\ c - 1 < b THEN 0 ELSE masked[c]]
              IN  /\ rd_matrix' = [c \in 1..Len(banded) |->
                                     IF BelowPercentile(banded, banded[c]) THEN 0 ELSE banded[c]]
                  /\ velocity_index' = index
                  /\ mpc' = "emitted"
  /\ UNCHANGED <<prt_num, prt, freq, track_no_info, mags, v_indices>>
  /\ UNCHANGED <<parserVars, seqVars>>

(***************************************************************************)
(* IEEE-754 binary64 arithmetic of np.linspace.  A positive double is      *)
(* [m, e]: its significand bits, most significant first (the first is 1),  *)
(* and the exponent of that first bit; its value is m * 2^(e - 52).        *)
(***************************************************************************)
SignificandBits == 53

RECURSIVE BitsToInt(_)
BitsToInt(bits) ==
  IF bits = <<>> THEN 0
  ELSE 2 * BitsToInt(SubSeq(bits, 1, Len(bits) - 1)) + bits[Len(bits)]

RECURSIVE IntToBits(_)
IntToBits(k) == IF k = 0 THEN <<>> ELSE Append(IntToBits(k \div 2), k % 2)

\* bits + 1; one bit longer when every bit was 1
RECURSIVE Incr(_)
Incr(bits) ==
  IF bits = <<>> THEN <<1>>
  ELSE IF bits[Len(bits)] = 0
       THEN Append(SubSeq(bits, 1, Len(bits) - 1), 1)
       ELSE Append(Incr(SubSeq(bits, 1, Len(bits) - 1)), 0)

\* round to nearest, ties to even: `keep` are the significand bits kept, `up`
\* says the dropped part is above one half, `tie` that it is exactly one half
RoundNearestEven(keep, e, up, tie) ==
  IF up \/ (tie /\ keep[Len(keep)] = 1)
  THEN LET inc == Incr(keep)
       IN  IF Len(inc) > Len(keep)
           THEN [m |-> SubSeq(inc, 1, Len(keep)), e |-> e + 1]
           ELSE [m |-> inc, e |-> e]
  ELSE [m |-> keep, e |-> e]

\* the largest e with b * 2^e <= a, for a >= b >= 1
RECURSIVE Log2Ratio(_, _)
Log2Ratio(a, b) == IF 2 * b <= a THEN 1 + Log2Ratio(a, 2 * b) ELSE 0

RECURSIVE Pow2(_)
Pow2(k) == IF k = 0 THEN 1 ELSE 2 * Pow2(k - 1)

\* the next k quotient bits of r / d, for r < d
RECURSIVE DivBits(_, _, _)
DivBits(r, d, k) ==
  IF k = 0 THEN <<>>
  ELSE IF 2 * r >= d
       THEN <<1>> \o DivBits(2 * r - d, d, k - 1)
       ELSE <<0>> \o DivBits(2 * r, d, k - 1)

\* the remainder those k bits leave
RECURSIVE DivRem(_, _, _)
DivRem(r, d, k) ==
  IF k = 0 THEN r
  ELSE IF 2 * r >= d
       THEN DivRem(2 * r - d, d, k - 1)
       ELSE DivRem(2 * r, d, k - 1)

\* the double nearest a / b, for integers a >= b >= 1
FDiv(a, b) ==
  LET e == Log2Ratio(a, b)
      d == b * Pow2(e)
      k == SignificandBits - 1
      rem == DivRem(a - d, d, k)
  IN  RoundNearestEven(<<1>> \o DivBits(a - d, d, k), e, 2 * rem > d, 2 * rem = d)

Reverse(bits) == [j \in 1..Len(bits) |-> bits[Len(bits) + 1 - j]]

\* the bits of i * bits + carry, least significant first (as `bits` is)
RECURSIVE MulBits(_, _, _)
MulBits(bits, i, carry) ==
  IF bits = <<>> THEN Reverse(IntToBits(carry))
  ELSE LET t == i * Head(bits) + carry
       IN  <<t % 2>> \o MulBits(Tail(bits), i, t \div 2)

\* the double nearest i * x, for an integer i >= 1 and a double x
FMulInt(i, x) ==
  LET p == Reverse(MulBits(Reverse(x.m), i, 0))
      n == SignificandBits
      rest == SubSeq(p, n + 1, Len(p))
      half == rest # <<>> /\ rest[1] = 1
      sticky == \E j \in 2..Len(rest) : rest[j] = 1
  IN  RoundNearestEven(SubSeq(p, 1, n), x.e + Len(p) - n, half /\ sticky, half /\ ~sticky)

\* floor of a double below 2^31
Floor(x) == IF x.e < 0 THEN 0 ELSE BitsToInt(SubSeq(x.m, 1, x.e + 1))

(***************************************************************************)
(* RDSeq.__getitem__ (lines 334-348).                                      *)
(***************************************************************************)
\* np.linspace: div = num - 1 with endpoint=True
LinspaceDivMutant(num) == num
LinspaceDiv(num) == num - 1

\* np.linspace(0, stop, num, dtype=int)[i], for 0 <= i < num and stop >= num:
\* y = arange(num) * (stop / div); y[-1] = stop; floor(y)
Linspace(stop, num, i) ==
  LET div == LinspaceDiv(num)
  IN  IF num > 1 /\ i = num - 1 THEN stop
      ELSE IF i = 0 THEN 0
      ELSE IF div > 0 THEN Floor(FMulInt(i, FDiv(stop, div)))
      ELSE i * stop

\* images[a:b] = 0 on a mask of length n (a Python slice: bounds clipped to n)
ZeroFrom(mask, a) == [i \in 1..Len(mask) |-> IF i > a THEN 0 ELSE mask[i]]

Getitem ==
  /\ gpc = "call"
  /\ LET shape0 == n_maps
         ones == [i \in 1..seq_len |-> 1]
         loaded == [i \in 1..n_maps |-> i]
     IN
     IF shape0 < seq_len
     THEN LET padded == loaded \o [i \in 1..(seq_len - shape0) |-> 0]
          IN  /\ images' = padded
              /\ image_mask' = ZeroFrom(ones, Len(padded))
     ELSE IF shape0 > seq_len
     THEN /\ images' = [i \in 1..seq_len |-> loaded[Linspace(shape0 - 1, seq_len, i - 1) + 1]]
          /\ image_mask' = ones
     ELSE /\ images' = loaded
          /\ image_mask' = ones
  /\ gpc' = "returned"
  /\ UNCHANGED <<seq_len, n_maps>>
  /\ UNCHANGED <<parserVars, mapVars>>

(***************************************************************************)
(* The raw files the model runs on.                                        *)
(*  - ChunkStreams: every concatenation of up to MaxChunks chunks (the     *)
(*    sentinels, length words, a zero word, a single byte that shifts the  *)
(*    alignment, a minimal 12-byte frame);                                 *)
(*  - FrameStreams: up to MaxFrames whole frames, at most one damaged, in  *)
(*    the layout the decoder consumes after a first-check accept ("code")  *)
(*    and in the layout of the format table ("table", with scan_index);    *)
(*  - ResyncStreams: a header declaring 1024 bytes with a wrong trailer,   *)
(*    followed by bytes that keep the verification loop running, with a    *)
(*    frame optionally laid among them.                                    *)
(***************************************************************************)
MiniFrame == FRAME_HEAD \o ToWord(3) \o FRAME_END

Chunks == {FRAME_HEAD, FRAME_END, ToWord(3), ToWord(4), <<0, 0, 0, 0>>, <<85>>, MiniFrame}

RECURSIVE ChunkSeqs(_)
ChunkSeqs(k) ==
  IF k = 0 THEN {<<>>}
  ELSE LET shorter == ChunkSeqs(k - 1)
       IN  shorter \cup {c \o t : c \in Chunks, t \in shorter}

ChunkStreams == {[runs |-> <<Bytes(b)>>, sent |-> <<>>] : b \in ChunkSeqs(MaxChunks) \ {<<>>}}

Layouts == {"code", "table"}

ParamChoices ==
  {[scan_index |-> 3, az |-> az, tc |-> tc, track |-> [i \in 1..(4 * tc) |-> i],
    freq |-> 10000, cpi |-> 9, prt_num |-> pn, prt |-> 8000, data_length |-> 31]
     : az \in {0, 7}, tc \in {0, 1}, pn \in {1, 2}}

BadKinds == {"header", "trailer", "tc", "prt_num_zero", "prt_num_big", "prt", "freq"}

FrameBytes(p, layout) ==
  (IF layout = "table" THEN 44 ELSE 40) + 16 * p.tc + 248 * p.prt_num

\* the word of field f, as written or as damaged
Field(f, v, kind) ==
  IF f = "header" THEN (IF kind = "header" THEN <<0, 0, 0, 0>> ELSE FRAME_HEAD)
  ELSE IF f = "trailer" THEN (IF kind = "trailer" THEN <<0, 0, 0, 0>> ELSE FRAME_END)
  ELSE IF f = "tc" /\ kind = "tc" THEN ToWord(1001)
  ELSE IF f = "prt_num" /\ kind = "prt_num_zero" THEN ToWord(0)
  ELSE IF f = "prt_num" /\ kind = "prt_num_big" THEN ToWord(10001)
  ELSE IF f = "prt" /\ kind = "prt" THEN ToWord(0)
  ELSE IF f = "freq" /\ kind = "freq" THEN ToWord(0)
  ELSE ToWord(v)

\* a frame of parameters p with zero IQ samples: its runs (kind: the damage, or "none")
EncodeFrame(p, layout, kind) ==
  <<Bytes(Flatten(<<Field("header", 0, kind),
                    ToWord(FrameBytes(p, layout) \div 4),
                    IF layout = "table" THEN ToWord(p.scan_index) ELSE <<>>,
                    ToWord(p.az),
                    Field("tc", p.tc, kind),
                    Flatten([i \in 1..(4 * p.tc) |-> ToWord(p.track[i])]),
                    Field("freq", p.freq, kind),
                    ToWord(p.cpi),
                    Field("prt_num", p.prt_num, kind),
                    Field("prt", p.prt, kind),
                    ToWord(p.data_length)>>)),
    Run(<<0>>, 248 * p.prt_num),
    Bytes(Field("trailer", 0, kind))>>

\* k frames of parameters p, frame number bad (0: none) damaged as kind says
FrameStream(p, layout, k, bad, kind) ==
  [runs |-> Flatten([i \in 1..k |->
                       EncodeFrame(p, layout, IF i = bad THEN kind ELSE "none")]),
   sent |-> [i \in 1..k |->
               [off |-> (i - 1) * FrameBytes(p, layout), layout |-> layout, p |-> p,
                bad |-> IF i = bad THEN kind ELSE "none"]]]

FrameStreams ==
  {FrameStream(p, layout, k, 0, "none") :
     p \in ParamChoices, layout \in Layouts, k \in 1..MaxFrames}
  \cup
  {FrameStream(x[1], x[2], x[3], x[4], x[5]) :
     x \in {y \in ParamChoices \X Layouts \X (1..MaxFrames) \X (1..MaxFrames) \X BadKinds :
              y[4] <= y[3]}}

ResyncBytes == 4 * 256

\* n bytes, from offset o on, that keep the verification loop running: the bytes
\* at offsets 5, 10, 15, ... are 1, so every length word the loop reads there
\* declares 4 bytes
Filler(o, k) == Run([i \in 1..5 |-> IF (o + i - 1) % 5 = 0 THEN 1 ELSE 0], k)

ResyncHead == Bytes(FRAME_HEAD \o ToWord(ResyncBytes \div 4))

EmbedItems ==
  {FRAME_HEAD \o ToWord(3) \o FRAME_END,
   FRAME_HEAD \o ToWord(3) \o <<0, 0, 0, 0>> \o FRAME_END}

EmbedOffsets == {11, 16, 21}

ResyncStreams ==
  {[runs |-> <<ResyncHead, Filler(8, ResyncBytes + tl - 8)>>, sent |-> <<>>] :
     tl \in 0..MaxTail}
  \cup
  {[runs |-> <<ResyncHead, Filler(8, e - 8), Bytes(item),
               Filler(e + Len(item), ResyncBytes + tl - e - Len(item))>>,
    sent |-> <<>>] :
     tl \in 0..MaxTail, e \in EmbedOffsets, item \in EmbedItems}

Sources == ChunkStreams \cup FrameStreams \cup ResyncStreams

(***************************************************************************)
(* The batch loop on one raw file.                                         *)
(***************************************************************************)
SeqIdle ==
  /\ seq_len = 0 /\ images = <<>> /\ image_mask = <<>> /\ n_maps = 0 /\ gpc = "off"

MapIdle ==
  /\ prt_num = 0 /\ prt = 0 /\ freq = 0 /\ track_no_info = <<>> /\ mags = <<>>
  /\ v_indices = <<>> /\ rd_matrix = <<>> /\ velocity_index = 0 /\ mpc = "off"

ParserIdle ==
  /\ stream = <<>> /\ sent = <<>> /\ pos = 0 /\ pc = "off"
  /\ head_find = <<0, 0, 0, 0>> /\ end_find = <<0, 0, 0, 0>>
  /\ frame_data_length = 0 /\ head_pos = -1 /\ call_start = 0
  /\ loc = IdleLoc /\ trail_fail = -1 /\ result = NoneResult
  /\ frames_out = <<>> /\ rd_matrices = <<>> /\ frame_count = 0

Init ==
  /\ \E s \in Sources : stream = s.runs /\ sent = s.sent
  /\ pos = 0
  /\ pc = "call"
  /\ head_find = <<0, 0, 0, 0>>
  /\ end_find = <<0, 0, 0, 0>>
  /\ frame_data_length = 0
  /\ head_pos = -1
  /\ call_start = 0
  /\ loc = IdleLoc
  /\ trail_fail = -1
  /\ result = NoneResult
  /\ frames_out = <<>>
  /\ rd_matrices = <<>>
  /\ frame_count = 0
  /\ SeqIdle
  /\ MapIdle

Next ==
  \/ ReadHead
  \/ SearchStep
  \/ ReadLength
  \/ ReadTrailer
  \/ VerifyStep
  \/ Accept
  \/ Decode
  \/ ProcessFrame

Spec == Init /\ [][Next]_vars

(***************************************************************************)
(* RDSeq.__getitem__ on a batch that yields n_maps maps.                   *)
(***************************************************************************)
MaxSeqLen == 23
MaxMaps == 31

SeqInit ==
  /\ ParserIdle
  /\ MapIdle
  /\ seq_len \in 1..MaxSeqLen
  /\ n_maps \in 1..MaxMaps
  /\ images = <<>>
  /\ image_mask = <<>>
  /\ gpc = "call"

SeqNext == Getitem

SeqSpec == SeqInit /\ [][SeqNext]_vars

(***************************************************************************)
(* The loop body of _process_batch on one returned frame.                  *)
(***************************************************************************)
MaxPrt == 12

PrtChoices == {1, 8000, 80000}

MagChoices(n) == {[c \in 1..n |-> 5], [c \in 1..n |-> c], [c \in 1..n |-> n + 1 - c]}

TrackChoices(n) == {<<>>} \cup {<<1, 1, 100, unit>> : unit \in {1, n}}

MapInit ==
  /\ ParserIdle
  /\ SeqIdle
  /\ prt_num \in 1..MaxPrt
  /\ prt \in PrtChoices
  /\ freq = FreqUnit
  /\ track_no_info \in TrackChoices(prt_num)
  /\ mags \in MagChoices(prt_num)
  /\ v_indices = <<>>
  /\ rd_matrix = <<>>
  /\ velocity_index = 0
  /\ mpc = "frame"

MapNext ==
  \/ CheckTracks
  \/ VelocityAxis
  \/ Localise
  \/ BuildMap

MapSpec == MapInit /\ [][MapNext]_vars

(***************************************************************************)
(* What the claims speak of, stated on the bytes alone.                    *)
(***************************************************************************)
HeadAt(o) == o >= 0 /\ o + 4 <= file_size /\ Word(o) = <<85, 250, 85, 250>>

EndAt(o) == o >= 0 /\ o + 4 <= file_size /\ Word(o) = <<250, 85, 250, 85>>

\* the declared byte length at header offset h is in (0, 1,000,000]
LengthOkAt(h) ==
  /\ h + 8 <= file_size
  /\ Word(h + 4) # <<0, 0, 0, 0>>
  /\ ~WordGt(Word(h + 4), 250000)

LengthAt(h) == 4 * U32(Word(h + 4))

\* header at h, declared length in range, trailer at h + L - 4
ValidFrameAt(h) == HeadAt(h) /\ LengthOkAt(h) /\ EndAt(h + LengthAt(h) - 4)

HeadsFrom(c) == LET size == file_size IN {o \in c..(size - 4) : Word(o) = <<85, 250, 85, 250>>}

Least(S) == CHOOSE x \in S : \A y \in S : x <= y

ValidFramesAfter(h) == {o \in (h + 1)..(file_size - 12) : ValidFrameAt(o)}

(* C1: when the first header sentinel at or after the cursor of a call     *)
(* starts a structurally valid frame (h, L), the locator of that call      *)
(* accepts exactly (h, L): it neither returns none nor accepts another     *)
(* offset or length.                                                       *)
C1_LocatesFirstValidFrame ==
  loc.st \in {"none", "found"} =>
    LET heads == HeadsFrom(call_start)
        h == Least(heads)
    IN  (heads # {} /\ ValidFrameAt(h))
          => (loc.st = "found" /\ loc.h = h /\ loc.L = LengthAt(h))

\* a valid frame accepted after bytes that had to be searched through
C1_Witness ==
  /\ loc.st = "found"
  /\ loc.h > call_start
  /\ ValidFrameAt(loc.h)
  /\ loc.h = Least(HeadsFrom(call_start))

(* C5: whenever the locator accepts (h, L), the word at h is the header    *)
(* sentinel, 0 < L <= 1,000,000 and the word at h + L - 4 is the trailer   *)
(* sentinel.                                                               *)
C5_AcceptedIsValid ==
  loc.st = "found" =>
    /\ HeadAt(loc.h)
    /\ loc.L > 0 /\ loc.L <= 1000000
    /\ EndAt(loc.h + loc.L - 4)

\* an accept on a stream in which the trailer sentinel also stands before the header
C5_Witness ==
  /\ loc.st = "found"
  /\ \E o \in 0..(loc.h - 1) : EndAt(o)

(* C9: after a failed first trailer check at h the locator returns none    *)
(* only if no structurally valid frame begins after h; otherwise it        *)
(* accepts the first such frame.                                           *)
C9_ResyncFindsNextFrame ==
  (trail_fail >= 0 /\ loc.st \in {"none", "found"}) =>
    IF ValidFramesAfter(trail_fail) = {}
    THEN loc.st = "none"
    ELSE loc.st = "found" /\ loc.h = Least(ValidFramesAfter(trail_fail))

(* C2: the frame loop ends only when the stream is exhausted: when it has  *)
(* ended, every structurally valid frame with in-range fields that the     *)
(* stream holds has been returned to the loop body.                        *)
C2_LoopReachesEveryGoodFrame ==
  pc = "done" =>
    \A h \in 0..(file_size - 12) :
      (ValidFrameAt(h) /\ DecodeAt(h + 4).res.ok)
        => \E j \in 1..Len(frames_out) : frames_out[j].h = h

\* the parameters p as the decoder returns them
SameParams(res, p) ==
  /\ res.e_scan_az = ToWord(p.az)
  /\ res.track_no_info = [i \in 1..(4 * p.tc) |-> ToWord(p.track[i])]
  /\ res.freq = ToWord(p.freq)
  /\ res.cpi_count = ToWord(p.cpi)
  /\ res.prt_num = ToWord(p.prt_num)
  /\ res.prt = ToWord(p.prt)
  /\ res.data_length = ToWord(p.data_length)

(* C3: a call that accepted the header of an undamaged frame laid out as   *)
(* the format table gives it returns that frame's parameters.              *)
C3_DecodesTableLayout ==
  (loc.st = "found" /\ pc \in {"frame", "done"}) =>
    \A i \in 1..Len(sent) :
      (sent[i].layout = "table" /\ sent[i].bad = "none" /\ sent[i].off = loc.h)
        => result.ok /\ SameParams(result, sent[i].p)

RECURSIVE Increasing(_)
Increasing(hs) ==
  Len(hs) < 2 \/ (hs[1].h < hs[2].h /\ Increasing(Tail(hs)))

C10_Step ==
  /\ (pc = "search" /\ pc' = "search") => head_pos' > head_pos
  /\ (pc = "verify" /\ pc' = "verify") => head_pos' > head_pos
  /\ (pc = "decode" /\ pc' = "frame") => (pos' > loc.h /\ Increasing(frames_out'))

\* how far the loop is from its end: the bytes left after the header candidate,
\* then the steps left for that candidate
Stage ==
  CASE pc = "search" -> 7
    [] pc = "trailer" -> 6
    [] pc = "verify" -> 5
    [] pc = "decode" -> 4
    [] pc = "frame" -> 3
    [] pc = "call" -> 2
    [] OTHER -> 0

Rank == IF pc = "done" THEN 0 ELSE 8 * (file_size - head_pos) + Stage

(* C10: every loop iteration of read_raw_data moves its header candidate   *)
(* strictly forward, a returned frame leaves the cursor beyond its header  *)
(* (so no frame is returned twice), and the frame loop terminates: until   *)
(* it has ended a step that changes the state is possible, and every step  *)
(* lowers a measure that is never negative.                                *)
C10_Terminates ==
  /\ [](Rank >= 0 /\ (pc = "done" \/ ENABLED <<Next>>_vars))
  /\ [][C10_Step /\ Rank' < Rank]_vars

\* the loop has ended after returning two frames
C10_Witness == pc = "done" /\ Len(frames_out) >= 2

(* C4: a batch of fewer maps than seq_len comes back right-padded with     *)
(* all-zero maps, the mask 1 on the original maps and 0 on the padding; a  *)
(* batch of exactly seq_len maps comes back unchanged with the mask all 1. *)
C4_PadsAndMasks ==
  (gpc = "returned" /\ n_maps <= seq_len) =>
    /\ Len(images) = seq_len
    /\ Len(image_mask) = seq_len
    /\ \A i \in 1..seq_len :
         IF i <= n_maps
         THEN images[i] = i /\ image_mask[i] = 1
         ELSE images[i] = 0 /\ image_mask[i] = 0

Resampled == gpc = "returned" /\ seq_len >= 2 /\ n_maps > seq_len

\* floor(i * (n - 1) / (L - 1))
ExactIndex(i) == (i * (n_maps - 1)) \div (seq_len - 1)

Selected(i) == images[i + 1] - 1

StrideShape ==
  /\ Len(images) = seq_len
  /\ Selected(0) = 0
  /\ Selected(seq_len - 1) = n_maps - 1
  /\ \A i \in 1..(seq_len - 1) : Selected(i - 1) < Selected(i)
  /\ image_mask = [i \in 1..seq_len |-> 1]

(* C6 as stated: a batch of more maps than seq_len >= 2 comes back as the  *)
(* maps at the indices floor(i * (n - 1) / (L - 1)), i = 0..L-1.           *)
C6_ExactFloorIndices ==
  Resampled =>
    StrideShape /\ \A i \in 0..(seq_len - 1) : Selected(i) = ExactIndex(i)

(* C6: a batch of more maps than seq_len >= 2 comes back as exactly        *)
(* seq_len maps, the first and the last of the batch among them, in        *)
(* strictly increasing order, with the mask all 1; the index selected for  *)
(* i is floor(i * (n - 1) / (L - 1)), or one less than it where            *)
(* i * (n - 1) / (L - 1) is a whole number.                                *)
C6_UniformStride ==
  Resampled =>
    /\ StrideShape
    /\ \A i \in 0..(seq_len - 1) :
         \/ Selected(i) = ExactIndex(i)
         \/ /\ Selected(i) = ExactIndex(i) - 1
            /\ (i * (n_maps - 1)) % (seq_len - 1) = 0

\* a resampled batch where one selected index is one below the exact floor
C6_Witness ==
  Resampled /\ \E i \in 0..(seq_len - 1) : Selected(i) = ExactIndex(i) - 1

\* the emitted map's own zero-velocity column (from 1)
OwnZeroColumn ==
  Cardinality({i \in 1..Len(v_indices) : v_indices[i] < 0 /\ VelocityMask(v_indices[i])}) + 1

(* C7: an emitted map is zero in the 7-column band around its own          *)
(* zero-velocity column (4 columns before it to 2 after it, as far as the  *)
(* map has them).                                                          *)
C7_ZeroBandAroundOwnZero ==
  mpc = "emitted" =>
    \A c \in 1..Len(rd_matrix) :
      (c >= OwnZeroColumn - 4 /\ c <= OwnZeroColumn + 2) => rd_matrix[c] = 0

(* C8: for a validated prt_num (1..10000) the velocity axis has prt_num    *)
(* entries, entry i being i - prt_num \div 2 times delta_v, antisymmetric   *)
(* about index prt_num \div 2, and neither the half_prt check nor the axis  *)
(* length check rejects the frame.                                         *)
C8_AxisHasPrtNumEntries ==
  (mpc \notin {"off", "frame", "mtd", "skip_tracks", "skip_delta_v"}
     /\ prt_num >= 1 /\ prt_num <= 10000) =>
    /\ mpc \notin {"skip_half_prt", "skip_axis"}
    /\ Len(v_indices) = prt_num
    /\ \A i \in 1..Len(v_indices) : v_indices[i] = (i - 1) - (prt_num \div 2)
    /\ \A i \in 1..Len(v_indices) :
         LET j == 2 * (prt_num \div 2) + 2 - i
         IN  j \in 1..Len(v_indices) => v_indices[j] = -v_indices[i]

====
